---- MODULE Spec2Model ----
(***************************************************************************)
(* LapackInterface (SimTKmath/LinearAlgebra/src/LapackInterface.cpp):      *)
(* the type-dispatching facade over the LAPACK/BLAS kernels.  One          *)
(* invocation of a facade operation is followed step by step: entry, the   *)
(* scratch buffers declared before the backend guard, the guard            *)
(* (SIMBODY_WITHOUT_LAPACK), the scratch buffers of the body, the          *)
(* workspace-size query, the sizing of the primary scratch buffer, the     *)
(* real kernel call and the status check.  The kernels are the             *)
(* environment: the status and the reported workspace size they return     *)
(* are chosen nondeterministically.                                        *)
(***************************************************************************)
EXTENDS Integers, Sequences, FiniteSets, TLC

VARIABLES
    lapack,     \* build: TRUE when SIMBODY_WITHOUT_LAPACK is not defined
    ndebug,     \* build: TRUE when NDEBUG is defined (assert is a no-op)
    pc,         \* position of the invocation
    op,         \* the facade operation invoked
    kind,       \* the element kind T of the invocation
    arg,        \* the caller's scalar inputs: m, n, jobz, lwork
    bufs,       \* live TypedWorkSpace buffers: records [name, size]
    acquired,   \* number of buffers acquired by the invocation so far
    wsize,      \* first element of the query's scratch slot, in halves; {} = unset
    sizeRead,   \* the value the facade read from that slot, in halves; {} = not read
    lwork,      \* the local lwork computed from it; {} = not computed
    info,       \* the status variable handed to the kernel; {} = never written
    calls,      \* the kernel calls of the invocation, in order
    result,     \* how the invocation ended
    exc,        \* the exception thrown, if any
    written,    \* caller-visible outputs written during the invocation
    wr,         \* geev, real kinds: contents of the scratch array wr (real parts)
    wi,         \* geev, real kinds: contents of the scratch array wi (imaginary parts)
    vr,         \* geev, real kinds: contents of the scratch array vr (n*n, column-major)
    values,     \* geev: the caller's eigenvalue array, elements <<re, im>>
    rightVectors, \* geev: the caller's n*n eigenvector array, elements <<re, im>>
    j,          \* geev, real kinds: the column index of the repacking loop
    reached,    \* geev, real kinds: the columns the repacking loop has handled, in order
    overrun,    \* accesses made past the end of an array
    acc,        \* the facade's own accesses to array elements, in order
    amat,       \* lange: the caller's matrix a (lda*n elements, column-major)
    da,         \* lange, real32/complex32: the temporary da (za for complex32)
    lu,         \* sytrf, sytrs: the factorization the caller's matrix holds: [kind, form]
    log,        \* the facade's and the kernels' accesses to scratch buffers, in order
    th,         \* concurrent callers: the invocation each thread is running
    heap,       \* concurrent callers: the live scratch blocks
    cout,       \* concurrent callers: what has been inserted into std::cout
    mach,       \* machine constants: what the kernel's lamch and labad do, by kind
    mpc,        \* machine constants: position of the call
    mop,        \* machine constants: the operation called
    mkind,      \* machine constants: its floating-point kind
    got,        \* machine constants: the lamch values obtained so far, by argument
    underFlow,  \* the caller's underFlow; {} = not written
    smallNumber, \* the caller's smallNumber; {} = not written
    bigNumber,  \* the caller's bigNumber; {} = not written
    kcalls,     \* machine constants: the kernel calls of the call, in order
    hist        \* machine constants: the calls that have ended, in order

\* the arrays the facade itself reads and writes (the eigenvector repacking
\* of geev, the copy of lange) and the record of its accesses
gvars == <<wr, wi, vr, values, rightVectors, j, reached, overrun, acc, amat, da, lu>>

\* the variables of the concurrent callers
cvars == <<th, heap, cout>>

\* the variables of one invocation followed on its own
ivars == <<lapack, ndebug, pc, op, kind, arg, bufs, acquired, wsize, sizeRead,
           lwork, info, calls, result, exc, written, gvars, log>>

\* the variables of a sequence of machine-constant calls
mvars == <<mach, mpc, mop, mkind, got, underFlow, smallNumber, bigNumber, kcalls, hist>>

vars == <<ivars, cvars, mvars>>

----------------------------------------------------------------------------
(* Bounds of the model. *)

\* matrix dimensions m, n range over 0..MaxDim
MaxDim == 2
\* the kernels report argument errors -1..-MaxArgPos
MaxArgPos == 2
\* the kernels report degenerate results 1..MaxPosInfo
MaxPosInfo == 1
\* a successful query reports a size between 1 and MaxWork + 1/2
MaxWork == 2
\* the kernels fill an array with one of MaxSeed contents
MaxSeed == 2
\* a caller's leading dimension exceeds the minimum by 0..MaxPad
MaxPad == 1
\* the routine names handed to ilaenv have 0..MaxName characters
MaxName == 9
\* a sequence of machine-constant calls has at most MaxCalls calls
MaxCalls == 3

----------------------------------------------------------------------------
(* Element kinds and operations. *)

RealKinds == {"real32", "real64"}
ComplexKinds == {"complex32", "complex64"}
Kinds == RealKinds \cup ComplexKinds
\* any element type the explicit specializations do not cover
OtherKind == "other"

IsComplex(k) == k \in ComplexKinds

\* operations whose status variable is the caller's int& info
InfoRefOps == {"gelss", "syevx", "syev", "gesdd", "geev", "getrf", "tzrzf",
               "geqp3", "lascl", "ormqr", "ormrz", "potrf", "sytrf"}
\* operations whose status variable is a local int info
InfoLocalOps == {"potrs", "sytrs", "getrs"}
StatusOps == InfoRefOps \cup InfoLocalOps
\* operations whose kernel returns no status
NoStatusOps == {"lange", "trsm", "copy", "getMachineUnderflow",
                "getMachinePrecision", "laic1", "ilaenv"}
Ops == StatusOps \cup NoStatusOps

\* operations that query the workspace size themselves
QueryOps == {"gelss", "syevx", "syev", "gesdd"}
\* operations that hand the caller's work and lwork to the kernel
CallerWorkOps == {"geev", "tzrzf", "geqp3", "ormqr", "ormrz", "sytrf"}
\* operations with a generic (unspecialized) template body in this file
GenericOps == {"gelss", "syevx", "syev", "gesdd", "geev", "sytrf"}

HasStatus(o) == o \in StatusOps
InfoByRef(o) == o \in InfoRefOps

\* the kinds an operation can be invoked with: its explicit specializations,
\* and any other kind where a generic body exists to instantiate
KindsOf(o) ==
    (IF o \in {"getMachineUnderflow", "getMachinePrecision"} THEN RealKinds ELSE Kinds)
    \cup (IF o \in GenericOps THEN {OtherKind} ELSE {})

----------------------------------------------------------------------------
(* The kernel entry point each specialization calls. *)

RoutineTable ==
    [gelss  |-> [real32 |-> "sgelss", real64 |-> "dgelss", complex32 |-> "cgelss", complex64 |-> "zgelss"],
     potrs  |-> [real32 |-> "spotrs", real64 |-> "dpotrs", complex32 |-> "cpotrs", complex64 |-> "zpotrs"],
     sytrs  |-> [real32 |-> "ssytrs", real64 |-> "dsytrs", complex32 |-> "chetrs", complex64 |-> "zhetrs"],
     getrs  |-> [real32 |-> "sgetrs", real64 |-> "dgetrs", complex32 |-> "cgetrs", complex64 |-> "zgetrs"],
     syevx  |-> [real32 |-> "ssyevx", real64 |-> "dsyevx", complex32 |-> "cheevx", complex64 |-> "zheevx"],
     syev   |-> [real32 |-> "ssyev",  real64 |-> "dsyev",  complex32 |-> "cheev",  complex64 |-> "zheev"],
     gesdd  |-> [real32 |-> "sgesdd", real64 |-> "dgesdd", complex32 |-> "cgesdd", complex64 |-> "zgesdd"],
     geev   |-> [real32 |-> "sgeev",  real64 |-> "dgeev",  complex32 |-> "cgeev",  complex64 |-> "zgeev"],
     getrf  |-> [real32 |-> "sgetrf", real64 |-> "dgetrf", complex32 |-> "cgetrf", complex64 |-> "zgetrf"],
     tzrzf  |-> [real32 |-> "stzrzf", real64 |-> "dtzrzf", complex32 |-> "ctzrzf", complex64 |-> "ztzrzf"],
     geqp3  |-> [real32 |-> "sgeqp3", real64 |-> "dgeqp3", complex32 |-> "cgeqp3", complex64 |-> "zgeqp3"],
     lascl  |-> [real32 |-> "slascl", real64 |-> "dlascl", complex32 |-> "clascl", complex64 |-> "zlascl"],
     lange  |-> [real32 |-> "dlange", real64 |-> "dlange", complex32 |-> "zlange", complex64 |-> "zlange"],
     ormqr  |-> [real32 |-> "sormqr", real64 |-> "dormqr", complex32 |-> "cunmqr", complex64 |-> "zunmqr"],
     trsm   |-> [real32 |-> "strsm",  real64 |-> "dtrsm",  complex32 |-> "ctrsm",  complex64 |-> "ztrsm"],
     ormrz  |-> [real32 |-> "sormrz", real64 |-> "dormrz", complex32 |-> "cunmrz", complex64 |-> "zunmrz"],
     copy   |-> [real32 |-> "scopy",  real64 |-> "dcopy",  complex32 |-> "ccopy",  complex64 |-> "zcopy"],
     getMachineUnderflow |-> [real32 |-> "slamch", real64 |-> "dlamch"],
     getMachinePrecision |-> [real32 |-> "slamch", real64 |-> "dlamch"],
     laic1  |-> [real32 |-> "slaic1", real64 |-> "dlaic1", complex32 |-> "claic1", complex64 |-> "zlaic1"],
     potrf  |-> [real32 |-> "spotrf", real64 |-> "dpotrf", complex32 |-> "cpotrf", complex64 |-> "zpotrf"],
     sytrf  |-> [real32 |-> "ssytrf", real64 |-> "dsytrf", complex32 |-> "csytrf", complex64 |-> "zsytrf"],
     ilaenv |-> [real32 |-> "ilaenv", real64 |-> "ilaenv", complex32 |-> "ilaenv", complex64 |-> "ilaenv"]]

\* a routing that sends the complex symmetric-indefinite solve to the
\* symmetric kernels
RoutineBug(o, k) ==
    CASE o = "sytrs" /\ k = "complex32" -> "csytrs"
      [] o = "sytrs" /\ k = "complex64" -> "zsytrs"
      [] OTHER -> RoutineTable[o][k]
Routine(o, k) == RoutineTable[o][k]

\* no factorization is held
NoLu == [kind |-> "none", form |-> "none"]

\* the family of a symmetric-indefinite kernel, read off its name: xSYTRF
\* produces and xSYTRS consumes A = U*D*U**T, xHETRF produces and xHETRS
\* consumes A = U*D*U**H
Family(r) ==
    CASE r \in {"ssytrf", "dsytrf", "csytrf", "zsytrf",
                "ssytrs", "dsytrs", "csytrs", "zsytrs"} -> "symmetric"
      [] r \in {"chetrf", "zhetrf", "chetrs", "zhetrs"} -> "Hermitian"
      [] OTHER -> "none"

\* the element kind a kernel entry point computes in: the first letter of its
\* name (s, d, c, z); ilaenv is the one entry point without a kind
KernelKind(r) ==
    CASE r \in {RoutineTable[o].real32 : o \in Ops \ {"lange", "ilaenv"}}
                \cup {"slabad"} -> "real32"
      [] r \in {RoutineTable[o].real64 : o \in Ops \ {"ilaenv"}}
                \cup {"dlabad"} -> "real64"
      [] r \in {RoutineTable[o].complex32 :
                   o \in Ops \ {"lange", "ilaenv", "getMachineUnderflow",
                                "getMachinePrecision"}} -> "complex32"
      [] r \in {RoutineTable[o].complex64 :
                   o \in Ops \ {"ilaenv", "getMachineUnderflow",
                                "getMachinePrecision"}} -> "complex64"
      [] OTHER -> "none"

\* the matrix operand handed to the kernel: the caller's buffer, or the
\* double-precision temporary lange fills for the single-precision kinds
MatrixArgBug(o, k) ==
    CASE o = "lange" /\ k \in {"real32", "real64"} -> "da.data"
      [] o = "lange" /\ k \in {"complex32", "complex64"} -> "za.data"
      [] o \in {"getMachineUnderflow", "getMachinePrecision", "ilaenv"} -> "none"
      [] OTHER -> "a"
MatrixArg(o, k) ==
    CASE o = "lange" /\ k = "real32" -> "da.data"
      [] o = "lange" /\ k = "complex32" -> "za.data"
      [] o \in {"getMachineUnderflow", "getMachinePrecision", "ilaenv"} -> "none"
      [] OTHER -> "a"

\* the leading dimension handed to the kernel with that operand
LeadingDim(o, k) ==
    IF o = "lange" /\ k \in {"real32", "complex32"} THEN "m" ELSE "lda"

\* the kernel calls of the real phase, in order
RealRoutinesBug(o, k) == <<Routine(o, k), Routine(o, k)>>
RealRoutines(o, k) ==
    IF o = "getMachinePrecision"
    THEN <<Routine(o, k), Routine(o, k), IF k = "real32" THEN "slabad" ELSE "dlabad">>
    ELSE <<Routine(o, k)>>

(* The routine name each SimTK_THROW2(IllegalLapackArg, name, info) passes. *)
ThrowTable ==
    [gelss  |-> [real32 |-> "sgelss", real64 |-> "dgelss", complex32 |-> "cgelss", complex64 |-> "zgelss"],
     potrs  |-> [real32 |-> "spotrs", real64 |-> "dpotrs", complex32 |-> "cpotrs", complex64 |-> "zpotrs"],
     sytrs  |-> [real32 |-> "ssytrs", real64 |-> "dsytrs", complex32 |-> "chetrs", complex64 |-> "zhetrs"],
     getrs  |-> [real32 |-> "sgetrs", real64 |-> "dgetrs", complex32 |-> "cgetrs", complex64 |-> "zgetrs"],
     syevx  |-> [real32 |-> "ssyevx", real64 |-> "dsyevx", complex32 |-> "cheevx", complex64 |-> "zheevx"],
     syev   |-> [real32 |-> "ssyev",  real64 |-> "dsyev",  complex32 |-> "cheev",  complex64 |-> "zheev"],
     gesdd  |-> [real32 |-> "sgesdd", real64 |-> "dgesdd", complex32 |-> "cgesdd", complex64 |-> "zgesdd"],
     geev   |-> [real32 |-> "sgeev",  real64 |-> "dgeev",  complex32 |-> "cgeev",  complex64 |-> "zgeev"],
     getrf  |-> [complex32 |-> "cgetrf", complex64 |-> "zgetrf"],
     tzrzf  |-> [real32 |-> "stzrzf", real64 |-> "dtzrzf", complex32 |-> "ctzrzf"],
     geqp3  |-> [real32 |-> "sgeqp3", real64 |-> "dgeqp3", complex32 |-> "cgeqp3", complex64 |-> "zgeqp3"],
     lascl  |-> [real32 |-> "slascl", real64 |-> "dlascl", complex32 |-> "clascl", complex64 |-> "zlascl"],
     ormqr  |-> [real32 |-> "sormqr", real64 |-> "dormqr", complex32 |-> "cunmqr", complex64 |-> "zunmqr"],
     ormrz  |-> [real32 |-> "sormrz", real64 |-> "dormrz", complex32 |-> "cunmrz", complex64 |-> "zunmrz"],
     potrf  |-> [real32 |-> "spotrf", real64 |-> "dpotrf", complex32 |-> "cpotrf", complex64 |-> "zpotrf"],
     sytrf  |-> [real32 |-> "ssytrf", real64 |-> "dsytrf", complex32 |-> "csytrf", complex64 |-> "zsytrf"]]

ThrowNameBug(o, k) ==
    IF o = "sytrs" /\ k = "complex32" THEN "csytrs" ELSE ThrowTable[o][k]
ThrowName(o, k) == ThrowTable[o][k]

\* the status test of every specialization that has one: if( info < 0 )
IsArgErrorBug(i) == i # 0
IsArgError(i) == i < 0

\* the specialization tests info < 0 between the size query and the real call
CheckAfterQuery(o, k) == o = "syev" /\ k = "complex64"

\* the specialization tests info < 0 after the real call
CheckAfterRealBug(o, k) ==
    /\ HasStatus(o)
    /\ ~(o = "getrf" /\ k \in RealKinds)
    /\ ~(o = "tzrzf" /\ k = "complex64")
    /\ ~(o = "syev" /\ k = "complex64")
    /\ ~(o = "geev" /\ k \in RealKinds)
CheckAfterReal(o, k) ==
    /\ HasStatus(o)
    /\ ~(o = "getrf" /\ k \in RealKinds)
    /\ ~(o = "tzrzf" /\ k = "complex64")
    /\ ~(o = "syev" /\ k = "complex64")

\* the specialization opens with the SIMBODY_WITHOUT_LAPACK guard and its throw
HasBackendGuardBug(o, k) == o \in Ops \ {"ilaenv"} /\ k \in Kinds
HasBackendGuard(o, k) == o \in Ops /\ k \in Kinds

----------------------------------------------------------------------------
(* The argument lists of the two kernel calls of the query-then-execute    *)
(* specializations, as written at the call sites.                          *)

\* position of the scratch argument in the argument lists below; the scratch length follows it
WorkPos(o) ==
    CASE o = "gelss" -> 11
      [] o = "syevx" -> 16
      [] o = "syev"  -> 7
      [] o = "gesdd" -> 11
      [] OTHER -> 0

QueryArgs(o, k) ==
    CASE o = "gelss" /\ ~IsComplex(k) ->
           <<"m", "n", "nrhs", "a", "lda", "b", "ldb", "s", "rcond", "rank",
             "wsize", "-1", "info">>
      [] o = "gelss" /\ IsComplex(k) ->
           <<"m", "n", "nrhs", "a", "lda", "b", "ldb", "s", "rcond", "rank",
             "wsize", "-1", "rwork.data", "info">>
      [] o = "syevx" /\ ~IsComplex(k) ->
           <<"jobz", "range", "uplo", "n", "a", "lda", "vl", "vu", "il", "iu",
             "abstol", "nFound", "values", "vectors", "LDVectors",
             "wsize", "-1", "iwork.data", "ifail", "info", "1", "1", "1">>
      [] o = "syevx" /\ IsComplex(k) ->
           <<"jobz", "range", "uplo", "n", "a", "lda", "vl", "vu", "il", "iu",
             "abstol", "nFound", "values", "vectors", "LDVectors",
             "wsize", "-1", "rwork.data", "iwork.data", "ifail", "info",
             "1", "1", "1">>
      [] o = "syev" /\ ~IsComplex(k) ->
           <<"jobz", "uplo", "n", "a", "lda", "eigenValues",
             "wsize", "-1", "info", "1", "1">>
      [] o = "syev" /\ IsComplex(k) ->
           <<"jobz", "uplo", "n", "a", "lda", "eigenValues",
             "wsize", "-1", "rwork.data", "info", "1", "1">>
      [] o = "gesdd" /\ ~IsComplex(k) ->
           <<"jobz", "m", "n", "a", "lda", "s", "u", "ldu", "vt", "ldvt",
             "work.data", "-1", "iwork.data", "info", "1">>
      [] o = "gesdd" /\ IsComplex(k) ->
           <<"jobz", "m", "n", "a", "lda", "s", "u", "ldu", "vt", "ldvt",
             "work.data", "-1", "rwork.data", "iwork.data", "info", "1">>
      [] OTHER -> <<>>

\* ilaenv: the arguments handed to ilaenv_, as written at the call site
IlaenvArgs(k) ==
    <<"ispec",
      CASE k = "real64" -> "strcat(d,name)"
        [] k = "real32" -> "strcat(s,name)"
        [] k = "complex64" -> "strcat(z,name)"
        [] k = "complex32" -> "strcat(c,name)",
      "opts", "n1", "n2", "n3", "n3", "6", "strlen(opts)">>

\* ilaenv: the parameters of the facade operation, in order
IlaenvParams == <<"ispec", "name", "opts", "n1", "n2", "n3", "n4">>

RealArgsBug(o, k) ==
    [i \in 1..Len(QueryArgs(o, k)) |->
       CASE i = WorkPos(o) -> "work.data"
         [] i = WorkPos(o) + 1 -> "lwork"
         [] QueryArgs(o, k)[i] = "lda" -> "n"
         [] OTHER -> QueryArgs(o, k)[i]]
RealArgs(o, k) ==
    CASE o = "gelss" /\ ~IsComplex(k) ->
           <<"m", "n", "nrhs", "a", "lda", "b", "ldb", "s", "rcond", "rank",
             "work.data", "lwork", "info">>
      [] o = "gelss" /\ IsComplex(k) ->
           <<"m", "n", "nrhs", "a", "lda", "b", "ldb", "s", "rcond", "rank",
             "work.data", "lwork", "rwork.data", "info">>
      [] o = "syevx" /\ ~IsComplex(k) ->
           <<"jobz", "range", "uplo", "n", "a", "lda", "vl", "vu", "il", "iu",
             "abstol", "nFound", "values", "vectors", "LDVectors",
             "work.data", "lwork", "iwork.data", "ifail", "info", "1", "1", "1">>
      [] o = "syevx" /\ IsComplex(k) ->
           <<"jobz", "range", "uplo", "n", "a", "lda", "vl", "vu", "il", "iu",
             "abstol", "nFound", "values", "vectors", "LDVectors",
             "work.data", "lwork", "rwork.data", "iwork.data", "ifail", "info",
             "1", "1", "1">>
      [] o = "syev" /\ ~IsComplex(k) ->
           <<"jobz", "uplo", "n", "a", "lda", "eigenValues",
             "work.data", "lwork", "info", "1", "1">>
      [] o = "syev" /\ IsComplex(k) ->
           <<"jobz", "uplo", "n", "a", "lda", "eigenValues",
             "work.data", "lwork", "rwork.data", "info", "1", "1">>
      [] o = "gesdd" /\ ~IsComplex(k) ->
           <<"jobz", "m", "n", "a", "lda", "s", "u", "ldu", "vt", "ldvt",
             "work.data", "lwork", "iwork.data", "info", "1">>
      [] o = "gesdd" /\ IsComplex(k) ->
           <<"jobz", "m", "n", "a", "lda", "s", "u", "ldu", "vt", "ldvt",
             "work.data", "lwork", "rwork.data", "iwork.data", "info", "1">>
      [] o = "ilaenv" -> IlaenvArgs(k)
      [] o = "geev" /\ ~IsComplex(k) ->
           <<"jobvl", "jobvr", "n", "a", "lda", "wr.data", "wi.data", "vl", "ldvl",
             "vr.data", "ldvr", "work", "lwork", "info", "1", "1">>
      [] o = "geev" /\ IsComplex(k) ->
           <<"jobvl", "jobvr", "n", "a", "lda", "values", "vl", "ldvl",
             "rightVectors", "ldvr", "work", "lwork", "Rwork.data", "info", "1", "1">>
      [] OTHER -> <<>>

\* the scratch length the size query passes
QueryLengthBug(o) == IF o = "gesdd" THEN 1 ELSE -1
QueryLength(o) == -1

\* the scratch slot the size query writes to: a one-element stack array, or
\* for gesdd the one-element TypedWorkSpace work
QueryWork(o) == IF o = "gesdd" THEN "work.data" ELSE "wsize"

----------------------------------------------------------------------------
(* Scratch buffers (WorkSpace.h, TypedWorkSpace<T>). *)

Min(a, b) == IF a < b THEN a ELSE b

Buf(name, size) == [name |-> name, size |-> size]

\* TypedWorkSpace(n): acquires a block of n elements
Acquire(bs, name, n) == bs \cup {Buf(name, n)}

\* resize(n): releases the block held, if any, and acquires one of n elements
Resize(bs, name, n) == {b \in bs : b.name # name} \cup {Buf(name, n)}

\* ~TypedWorkSpace() of every object in scope: at return and during unwinding
ReleaseAll(bs) == {}

BufSize(bs, name) == (CHOOSE b \in bs : b.name = name).size

\* TypedWorkSpace objects declared before the SIMBODY_WITHOUT_LAPACK guard
EarlyBufs(o, k, a) ==
    CASE o = "geqp3" /\ IsComplex(k) -> {Buf("rwork", 2 * a.n)}
      [] o = "lange" /\ k = "real64" -> {Buf("work", a.m)}
      [] OTHER -> {}

\* gesdd, complex kinds: the size of rwork, by jobz and mn = min(m, n)
GesddRworkSizeBug(jobz, mn) == 5 * mn * mn + 7 * mn
GesddRworkSize(jobz, mn) == IF jobz = "N" THEN 5 * mn ELSE 5 * mn * mn + 7 * mn

\* syev, complex kinds: int l = 3*n -2; if( l < 1 ) l = 1;
SyevRworkSizeBug(n) == 3 * n - 2
SyevRworkSize(n) == IF 3 * n - 2 < 1 THEN 1 ELSE 3 * n - 2

\* TypedWorkSpace objects declared in the body before the first kernel call
SetupBufs(o, k, a) ==
    CASE o = "gelss" /\ IsComplex(k) -> {Buf("rwork", 5 * a.mn)}
      [] o = "syevx" /\ ~IsComplex(k) -> {Buf("iwork", 5 * a.n)}
      [] o = "syevx" /\ IsComplex(k) -> {Buf("iwork", 5 * a.n), Buf("rwork", 7 * a.n)}
      [] o = "syev" /\ IsComplex(k) ->
           {Buf("rwork", SyevRworkSize(a.n))}
      [] o = "gesdd" /\ ~IsComplex(k) ->
           {Buf("work", 1), Buf("iwork", 8 * Min(a.m, a.n))}
      [] o = "gesdd" /\ IsComplex(k) ->
           LET mn == Min(a.m, a.n)
           IN  {Buf("rwork", GesddRworkSize(a.jobz, mn)),
                Buf("work", 1), Buf("iwork", 8 * mn)}
      [] o = "geev" /\ ~IsComplex(k) ->
           {Buf("wr", a.n), Buf("wi", a.n), Buf("vr", a.n * a.n)}
      [] o = "geev" /\ IsComplex(k) -> {Buf("Rwork", 2 * a.n)}
      [] o = "lange" /\ k = "real32" -> {Buf("work", a.m), Buf("da", a.m * a.n)}
      [] o = "lange" /\ k = "complex32" -> {Buf("work", a.m), Buf("za", a.m * a.n)}
      [] o = "lange" /\ k = "complex64" -> {Buf("work", a.m)}
      [] OTHER -> {}

\* the buffers other than the primary scratch buffer
AuxBufs(bs) == {b \in bs : b.name # "work"}

----------------------------------------------------------------------------
(* Conversions and exceptions. *)

\* getLWork / (int)wsize[0] / (int)wsize[0].real(): the conversion of the
\* reported size to int truncates toward zero.  Sizes are held in halves.
getLWorkBug(v) == (v + 1) \div 2
getLWork(v) == IF v >= 0 THEN v \div 2 ELSE -((-v) \div 2)

NoExc == [type |-> "none", routine |-> "", arg |-> 0]

\* SimTK::Exception::IllegalLapackArg(routine, info): reports argument -info
IllegalLapackArg(routine, i) == [type |-> "InvalidArgument", routine |-> routine, arg |-> -i]

\* std::runtime_error("LapackInterface::<op> called")
BackendUnavailable(o) == [type |-> "BackendUnavailable", routine |-> o, arg |-> 0]

\* std::bad_alloc family, from new T[n] with n < 0
BadAlloc == [type |-> "BadAlloc", routine |-> "", arg |-> 0]

----------------------------------------------------------------------------
(* The environment: what a kernel may return. *)

\* the status a kernel call leaves in info
InfoVals == (-MaxArgPos)..MaxPosInfo

\* the size a successful query leaves in the scratch slot, in halves
WSizeVals == 2..(2 * MaxWork + 1)

\* what a read of the scratch slot yields when the query left it unset
GarbageVals == (-3)..(2 * MaxWork + 1)

\* the lwork values a caller hands to the operations that take work and lwork
CallerLWork == {-1} \cup (1..MaxWork)

Dims == 0..MaxDim

TheInfo == CHOOSE i \in info : TRUE

\* the status variable as the caller sees it after the invocation
CallerInfo == IF InfoByRef(op) THEN info ELSE {}

\* Every scratch buffer of this file is held by an automatic TypedWorkSpace
\* object of the specialization, so leaving the function destroys it.
ScopedBug(o, k, name) == o \in Ops /\ k \in Kinds /\ name # "work"
Scoped(o, k, name) == o \in Ops /\ k \in Kinds

AtExit(bs) ==
    {b \in bs : ~Scoped(op, kind, b.name)}
    \cup ReleaseAll({b \in bs : Scoped(op, kind, b.name)})

CallRec(r, lw, wk, wl, as, i) ==
    [routine |-> r, query |-> (lw = -1), lwork |-> lw, work |-> wk, worklen |-> wl,
     args |-> as, aux |-> AuxBufs(bufs), info |-> i,
     data |-> MatrixArg(op, kind), ld |-> LeadingDim(op, kind)]

\* caller-visible outputs a kernel call writes
KernelWrites(o, q, i) ==
    (IF InfoByRef(o) THEN {"info"} ELSE {})
    \cup (IF o \in CallerWorkOps /\ q /\ i >= 0 THEN {"work"} ELSE {})
    \cup (IF ~q /\ i >= 0 THEN {"data"} ELSE {})

----------------------------------------------------------------------------
(* geev for the real kinds: the kernel's split real/imaginary output and   *)
(* its repacking into the caller's complex arrays.                         *)

\* static const double EPS = .000001, on a grid of magnitudes on which
\* single precision has every second point
EPS == 5

\* (float)x: the nearest single-precision value, for EPS the one below it
ToFloat(x) == 2 * (x \div 2)

fabs(x) == IF x < 0 THEN -x ELSE x

\* the test of the repacking loop: fabs(wi.data[j]) < EPS for double,
\* fabs(wi.data[j]) < (float)EPS for float
IsRealEigenvalueBug(k, x) ==
    IF k = "real32" THEN fabs(x) <= ToFloat(EPS) ELSE fabs(x) <= EPS
IsRealEigenvalue(k, x) ==
    IF k = "real32" THEN fabs(x) < ToFloat(EPS) ELSE fabs(x) < EPS

\* the column the repacking loop goes on to after the pair c, c + 1: the
\* j++ of the complex branch and the j++ of the for statement
AfterPairBug(c) == c + 1
AfterPair(c) == c + 2

\* the specialization repacks the kernel's eigenvectors
Repacks(o, k) == o = "geev" /\ k \in RealKinds

NoArray == [idx \in {} |-> 0]

\* an array of len elements, all different, as a kernel (or the allocator)
\* may leave it
Content(s, len) == [idx \in 0..(len - 1) |-> s * (idx + 1)]

Seeds == 1..MaxSeed

\* the imaginary parts a kernel may return, values of the element kind
ImagVals(k) ==
    IF k = "real32"
    THEN {-(ToFloat(EPS) + 2), 0, ToFloat(EPS) - 2, ToFloat(EPS)}
    ELSE {-EPS, 0, EPS - 1, EPS}

\* what a read past the end of vr may yield
PastEnd == {7, 9}

\* for(int i=0;i<n;i++) wi.data[i] = 0;
Zeroed(n) == [idx \in 0..(n - 1) |-> 0]

\* what the kernel call leaves in wr, wi and vr: the real call that does
\* not fail on an argument fills all three; the size query and the failed
\* call leave wi as zeroed and wr, vr as allocated
KernelOut(o, k, n, lw, i) ==
    CASE Repacks(o, k) /\ lw # -1 /\ i >= 0 ->
           {[wr |-> Content(s, n), wi |-> w, vr |-> Content(s, n * n)] :
              s \in Seeds, w \in [0..(n - 1) -> ImagVals(k)]}
      [] Repacks(o, k) ->
           {[wr |-> Content(s, n), wi |-> Zeroed(n), vr |-> Content(s, n * n)] :
              s \in Seeds}
      [] OTHER -> {[wr |-> NoArray, wi |-> NoArray, vr |-> NoArray]}

\* std::complex<T>(re, im)
ComplexBug(re, im) == <<im, re>>
Complex(re, im) == <<re, im>>

\* the caller's arrays as they are at entry
AtEntry(len) == [idx \in 0..(len - 1) |-> <<0, 0>>]

----------------------------------------------------------------------------
(* Accesses to scratch buffers. *)

Event(e, name) == [ev |-> e, buf |-> name]

\* gesdd for the complex kinds declares rwork empty and resizes it
SetupLog(o, k, n) ==
    (IF o = "gesdd" /\ IsComplex(k) THEN <<Event("resize", "rwork")>> ELSE <<>>)
    \o (IF Repacks(o, k) /\ n > 0 THEN <<Event("write", "wi")>> ELSE <<>>)

\* the size query writes the size to work.data[0] of gesdd
QueryLog(o, i) ==
    IF o = "gesdd" /\ i >= 0 THEN <<Event("write", "work")>> ELSE <<>>

\* between the calls gesdd reads work.data[0] and then resizes work; the
\* other operations read a stack array and construct work
SizeLogBug(o) ==
    IF o = "gesdd"
    THEN <<Event("resize", "work"), Event("read", "work"), Event("resize", "work")>>
    ELSE <<>>
SizeLog(o) ==
    IF o = "gesdd" THEN <<Event("read", "work"), Event("resize", "work")>> ELSE <<>>

\* the real call: lange fills its temporary, the kernel uses the scratch
RealLog(o, k, m, n) ==
    (IF o = "lange" /\ k = "real32" /\ m * n > 0 THEN <<Event("write", "da")>> ELSE <<>>)
    \o (IF o = "lange" /\ k = "complex32" /\ m * n > 0
        THEN <<Event("write", "za")>> ELSE <<>>)
    \o (IF o \in QueryOps THEN <<Event("write", "work")>> ELSE <<>>)
    \o (IF Repacks(o, k)
        THEN <<Event("write", "wr"), Event("write", "wi"), Event("write", "vr")>>
        ELSE <<>>)

----------------------------------------------------------------------------
(* The facade's own accesses to array elements.                            *)

\* one access to element at (counted from 0) of the array buf
Access(e, name, at) == [ev |-> e, buf |-> name, at |-> at]

\* the accesses of a loop of cnt iterations, iteration i making the per
\* accesses rows[i], in order
Each(cnt, per, rows) ==
    [p \in 1..(cnt * per) |-> rows[(p - 1) \div per][((p - 1) % per) + 1]]

\* geev, real kinds: for(int i=0;i<n;i++) wi.data[i] = 0;
ZeroFillBug(n) ==
    [p \in 1..(IF n < 1 THEN 1 ELSE n) |-> Access("write", "wi", p - 1)]
ZeroFill(n) == [p \in 1..n |-> Access("write", "wi", p - 1)]

\* geev, real kinds: for(int i=0;i<n;i++) values[i] = complex(wr.data[i], wi.data[i]);
ValuesAcc(n) ==
    Each(n, 3, [i \in 0..(n - 1) |-> <<Access("read", "wr", i), Access("read", "wi", i),
                            Access("write", "values", i)>>])

\* geev, real kinds: the iteration of the repacking loop for a real column c
RealColumnAcc(c, n) ==
    <<Access("read", "wi", c)>>
    \o Each(n, 2, [i \in 0..(n - 1) |-> <<Access("read", "vr", c * n + i),
                               Access("write", "rightVectors", c * n + i)>>])

\* geev, real kinds: the iteration of the repacking loop that takes columns
\* c and c + 1 as a conjugate pair
PairColumnsAcc(c, n) ==
    <<Access("read", "wi", c)>>
    \o Each(n, 6, [i \in 0..(n - 1) |-> <<Access("read", "vr", c * n + i),
                               Access("read", "vr", (c + 1) * n + i),
                               Access("write", "rightVectors", c * n + i),
                               Access("read", "vr", c * n + i),
                               Access("read", "vr", (c + 1) * n + i),
                               Access("write", "rightVectors", (c + 1) * n + i)>>])

----------------------------------------------------------------------------
(* lange for real32 and complex32: the copy into a double temporary.       *)

\* lange for the single-precision kinds fills a temporary before the call
Copies(o, k) == o = "lange" /\ k \in {"real32", "complex32"}
CopyName(k) == IF k = "real32" THEN "da" ELSE "za"

\* an element: its format and its value
Elem(prec, v) == [prec |-> prec, val |-> v]

\* the conversion of a float (a std::complex<float>) to double
\* (std::complex<double>) by assignment: the same value in the wider format
Widen(x) == [x EXCEPT !.prec = "double"]

\* the caller's matrix: n columns of lda elements, all different
CallerMatrix(s, lda, n) == [idx \in 0..(lda * n - 1) |-> Elem("single", s * (idx + 1))]

\* for (j<n) for (i<m) da.data[j*m + i] = a[j*lda + i];
LangeCopyBug(a, m, n, lda) ==
    [idx \in 0..(m * n - 1) |-> Widen(a[idx])]
LangeCopy(a, m, n, lda) ==
    [idx \in 0..(m * n - 1) |-> Widen(a[(idx \div m) * lda + (idx % m)])]

\* the accesses of that copy loop
CopyAcc(k, m, n, lda) ==
    Each(m * n, 2, [p \in 0..(m * n - 1) |-> <<Access("read", "a", (p \div m) * lda + (p % m)),
                                Access("write", CopyName(k), p)>>])

----------------------------------------------------------------------------
(* ilaenv: the kind-prefixed routine name.                                 *)

\* char d[10]; (s, z, c for the other kinds)
PrefixSize == 10

\* d[0] = 'd'; d[1] = '\0';
Prefix(k) ==
    CASE k = "real64" -> <<"d">>
      [] k = "real32" -> <<"s">>
      [] k = "complex64" -> <<"z">>
      [] k = "complex32" -> <<"c">>

\* a routine name of len characters, as the caller hands it over
Name(len) == [i \in 1..len |-> "x"]

\* strcat(dst, src): the characters dst holds afterwards, terminator
\* included, written whether or not dst has room for them
Strcat(dst, src) == dst \o src \o <<"NUL">>

\* the writes into the local buffer: the two assignments, then strcat, which
\* overwrites the terminator and appends
IlaenvAcc(k, name) ==
    LET str == Strcat(<<Prefix(k)>>, name)
    IN  <<Access("write", "prefix", 0), Access("write", "prefix", 1)>>
        \o [p \in 1..(Len(str) - 1) |-> Access("write", "prefix", p)]

\* what the facade accesses in the statement of the real kernel call
RealAcc(o, k, a) ==
    CASE Copies(o, k) -> CopyAcc(k, a.m, a.n, a.lda)
      [] o = "ilaenv" -> IlaenvAcc(k, a.name)
      [] OTHER -> <<>>

\* geev, real kinds: the kernel writes column c of the eigenvectors at
\* vr.data + c*ldvr, the leading dimension it was told; the elements that
\* lie past the n*n elements of vr
KernelOverrun(o, k, n, ldvr, lw, i) ==
    IF Repacks(o, k) /\ lw # -1 /\ i >= 0
    THEN LET cells == {c * ldvr + r : c \in 0..(n - 1), r \in 0..(n - 1)}
         IN  {[ev |-> "kernel write", buf |-> "vr", at |-> x] :
                x \in {y \in cells : y >= n * n}}
    ELSE {}

\* the accesses among acs that fall outside an array of size elements
Outside(acs, name, size) ==
    {acs[p] : p \in {q \in 1..Len(acs) : acs[q].buf = name /\ acs[q].at >= size}}

----------------------------------------------------------------------------
(* Concurrent callers: what two invocations running at once can share.     *)

\* two callers, each with its own matrices and its own info
Threads == {1, 2}

\* the operations the concurrent callers invoke
ConcOps == {"lange", "geev", "potrs"}

UnitArg == [m |-> 1, n |-> 1, mn |-> 1, jobz |-> "N", lwork |-> 1,
            lda |-> 1, ldvr |-> 1, name |-> <<>>]

\* the TypedWorkSpace objects a specialization declares
ScratchNames(o, k) ==
    {b.name : b \in EarlyBufs(o, k, UnitArg) \cup SetupBufs(o, k, UnitArg)}

\* the specialization keeps its scratch in objects with static storage;
\* every TypedWorkSpace of this file is an automatic object
StaticScratchBug(o, k) == o = "lange" /\ k = "real32"
StaticScratch(o, k) == FALSE

\* lange<std::complex<float> >: std::cout << "LapackInterface::lange called" << std::endl
Prints(o, k) == o = "lange" /\ k = "complex32"

Addrs == 1..6

Block(a, t, name) == [addr |-> a, owner |-> t, name |-> name, content |-> 0, users |-> {}]

\* the block behind the scratch object name of thread t
BlockOf(t, name) ==
    IF StaticScratch(th[t].op, th[t].kind)
    THEN CHOOSE b \in heap : b.addr = 0 /\ b.name = name
    ELSE CHOOSE b \in heap : b.owner = t /\ b.name = name

\* thread t reads or writes the blocks named in names; w = 0 leaves their contents
Touch(t, names, w) ==
    {IF \E name \in names : b = BlockOf(t, name)
     THEN [b EXCEPT !.users = @ \cup {t}, !.content = IF w = 0 THEN @ ELSE w]
     ELSE b : b \in heap}

IdleThread ==
    [pc |-> "idle", op |-> "none", kind |-> "none", need |-> {}, info |-> {},
     result |-> "none", ret |-> 0]

\* thread t enters specialization <k> of operation o
TEnter(t, o, k) ==
    /\ th[t].pc = "idle"
    /\ k \in KindsOf(o) \cap Kinds
    /\ th' = [th EXCEPT ![t] = [IdleThread EXCEPT !.pc = "acquire", !.op = o, !.kind = k,
                                                !.need = ScratchNames(o, k)]]
    /\ UNCHANGED <<ivars, mvars, heap, cout>>

\* the constructor of one TypedWorkSpace object: a block no one else holds
TAcquire(t) ==
    /\ th[t].pc = "acquire"
    /\ th[t].need # {}
    /\ LET name == CHOOSE x \in th[t].need : TRUE
           free == Addrs \ {b.addr : b \in heap}
           a == CHOOSE x \in free : \A y \in free : x <= y
       IN  /\ heap' = IF StaticScratch(th[t].op, th[t].kind)
                      THEN IF \E b \in heap : b.addr = 0 /\ b.name = name
                           THEN heap
                           ELSE heap \cup {Block(0, 0, name)}
                      ELSE heap \cup {Block(a, t, name)}
           /\ th' = [th EXCEPT ![t].need = @ \ {name}]
    /\ UNCHANGED <<ivars, mvars, cout>>

\* the scratch is in place: lange for the single-precision kinds copies the
\* caller's matrix into its temporary, the others go on to the kernel
TCopy(t) ==
    /\ th[t].pc = "acquire"
    /\ th[t].need = {}
    /\ IF Copies(th[t].op, th[t].kind)
       THEN /\ heap' = Touch(t, {CopyName(th[t].kind)}, t)
            /\ th' = [th EXCEPT ![t].pc =
                         IF Prints(th[t].op, th[t].kind) THEN "print" ELSE "call"]
       ELSE /\ th' = [th EXCEPT ![t].pc = "call"]
            /\ UNCHANGED heap
    /\ UNCHANGED <<ivars, mvars, cout>>

\* std::cout << "LapackInterface::lange called"
TPrint(t) ==
    /\ th[t].pc = "print"
    /\ cout' = Append(cout, [by |-> t, text |-> "LapackInterface::lange called"])
    /\ th' = [th EXCEPT ![t].pc = "endl"]
    /\ UNCHANGED <<ivars, mvars, heap>>

\* << std::endl
TEndl(t) ==
    /\ th[t].pc = "endl"
    /\ cout' = Append(cout, [by |-> t, text |-> "endl"])
    /\ th' = [th EXCEPT ![t].pc = "call"]
    /\ UNCHANGED <<ivars, mvars, heap>>

\* the kernel call: it works in the scratch it was handed and computes from
\* the matrix it was handed, the caller's or the temporary
TKernel(t) ==
    /\ th[t].pc = "call"
    /\ \E i \in (IF HasStatus(th[t].op) THEN InfoVals ELSE {0}) :
         LET o == th[t].op
             k == th[t].kind
             temp == IF Copies(o, k) THEN {CopyName(k)} ELSE {}
             seen == IF Copies(o, k) THEN BlockOf(t, CopyName(k)).content ELSE t
         IN  /\ heap' = {IF \E name \in ScratchNames(o, k) \ temp : b = BlockOf(t, name)
                          THEN [b EXCEPT !.users = @ \cup {t}, !.content = t]
                          ELSE IF \E name \in temp : b = BlockOf(t, name)
                          THEN [b EXCEPT !.users = @ \cup {t}]
                          ELSE b : b \in heap}
             /\ th' = [th EXCEPT ![t].pc = "check", ![t].info = {i}, ![t].ret = seen]
    /\ UNCHANGED <<ivars, mvars, cout>>

\* the status test and the return: the automatic TypedWorkSpace objects are
\* destroyed on either way out
TReturn(t) ==
    /\ th[t].pc = "check"
    /\ LET o == th[t].op
           k == th[t].kind
           i == CHOOSE x \in th[t].info : TRUE
       IN  th' = [th EXCEPT ![t].pc = "done",
                            ![t].result = IF CheckAfterReal(o, k) /\ IsArgError(i)
                                          THEN "InvalidArgument" ELSE "returned"]
    /\ heap' = {b \in heap : b.owner # t}
    /\ UNCHANGED <<ivars, mvars, cout>>

----------------------------------------------------------------------------
(* Machine constants: getMachineUnderflow and getMachinePrecision.         *)

MachOps == {"getMachineUnderflow", "getMachinePrecision"}

\* the machines: what the kernel's lamch returns for 'S' and for 'P', as the
\* exponent of a power of two, and whether its labad takes the square roots
Machines ==
    [S : [RealKinds -> {-9, -6}], P : [RealKinds -> {-3, -2}],
     adj : [RealKinds -> BOOLEAN]]

\* slamch_(c) / dlamch_(c)
Lamch(k, c) == IF c = "S" THEN mach.S[k] ELSE mach.P[k]

\* x / y, 1 / x and the square root of x, on exponents
Quot(x, y) == x - y
Recip(x) == 0 - x
Sqrt(x) == IF x >= 0 THEN x \div 2 ELSE -((-x) \div 2)

\* slabad_(small, large) / dlabad_(small, large): the pair it leaves
Labad(k, sm, lg) == IF mach.adj[k] THEN <<Sqrt(sm), Sqrt(lg)>> ELSE <<sm, lg>>

\* the operation serves the values of an earlier call of the same kind
\* instead of calling the kernel; no specialization keeps anything between
\* calls
CachedBug(o, k, h) ==
    \E p \in 1..Len(h) : h[p].op = o /\ h[p].kind = k /\ h[p].result = "returned"
Cached(o, k, h) == FALSE

\* the kernel calls of the call once routine r has been called with argument c
KCall(r, c) ==
    IF Cached(mop, mkind, hist) THEN kcalls
    ELSE Append(kcalls, [routine |-> r, arg |-> c])

\* a caller asks for the machine constants of kind k
MCall(o, k) ==
    /\ mpc = "idle"
    /\ Len(hist) < MaxCalls
    /\ mop' = o
    /\ mkind' = k
    /\ mpc' = "guard"
    /\ got' = NoArray
    /\ underFlow' = {}
    /\ smallNumber' = {}
    /\ bigNumber' = {}
    /\ kcalls' = <<>>
    /\ UNCHANGED <<ivars, cvars, mach, hist>>

\* the call ends: control and the written outputs are back with the caller
MEnd(res) ==
    /\ hist' = Append(hist, [op |-> mop, kind |-> mkind, result |-> res,
                             underFlow |-> underFlow', smallNumber |-> smallNumber',
                             bigNumber |-> bigNumber', kernel |-> kcalls'])
    /\ mpc' = "idle"

\* #ifdef SIMBODY_WITHOUT_LAPACK: throw std::runtime_error
MUnavailable ==
    /\ mpc = "guard"
    /\ ~lapack
    /\ UNCHANGED <<ivars, cvars, mach, mop, mkind, got, underFlow, smallNumber,
                   bigNumber, kcalls>>
    /\ MEnd("BackendUnavailable")

\* getMachineUnderflow: underFlow = slamch_('S'); return;
MUnderflow ==
    /\ mpc = "guard"
    /\ lapack
    /\ mop = "getMachineUnderflow"
    /\ underFlow' = {Lamch(mkind, "S")}
    /\ kcalls' = KCall(Routine(mop, mkind), "S")
    /\ UNCHANGED <<ivars, cvars, mach, mop, mkind, got, smallNumber, bigNumber>>
    /\ MEnd("returned")

\* getMachinePrecision: one of the two operands of slamch_('S')/slamch_('P'),
\* which are evaluated in either order
MLamch(c) ==
    /\ mpc = "guard"
    /\ lapack
    /\ mop = "getMachinePrecision"
    /\ c \notin DOMAIN got
    /\ got' = [x \in DOMAIN got \cup {c} |-> IF x = c THEN Lamch(mkind, c) ELSE got[x]]
    /\ kcalls' = KCall(Routine(mop, mkind), c)
    /\ UNCHANGED <<ivars, cvars, mach, mpc, mop, mkind, underFlow, smallNumber,
                   bigNumber, hist>>

\* smallNumber = slamch_('S')/slamch_('P'); bigNumber = 1.f/smallNumber;
MSmallBig ==
    /\ mpc = "guard"
    /\ mop = "getMachinePrecision"
    /\ DOMAIN got = {"S", "P"}
    /\ smallNumber' = {Quot(got["S"], got["P"])}
    /\ bigNumber' = {Recip(Quot(got["S"], got["P"]))}
    /\ mpc' = "labad"
    /\ UNCHANGED <<ivars, cvars, mach, mop, mkind, got, underFlow, kcalls, hist>>

\* slabad_(smallNumber, bigNumber); and the return
MLabad ==
    /\ mpc = "labad"
    /\ LET sm == CHOOSE x \in smallNumber : TRUE
           lg == CHOOSE x \in bigNumber : TRUE
       IN  /\ smallNumber' = {Labad(mkind, sm, lg)[1]}
           /\ bigNumber' = {Labad(mkind, sm, lg)[2]}
    /\ kcalls' = KCall(IF mkind = "real32" THEN "slabad" ELSE "dlabad", "small, large")
    /\ UNCHANGED <<ivars, cvars, mach, mop, mkind, got, underFlow>>
    /\ MEnd("returned")

----------------------------------------------------------------------------
(* The state machine. *)

NoArg == [m |-> 0, n |-> 0, mn |-> 0, jobz |-> "N", lwork |-> 0,
          lda |-> 0, ldvr |-> 0, name |-> <<>>]

\* no invocation is under way
Idle ==
    /\ pc = "idle"
    /\ op = "none"
    /\ kind = "none"
    /\ arg = NoArg
    /\ bufs = {}
    /\ acquired = 0
    /\ wsize = {}
    /\ sizeRead = {}
    /\ lwork = {}
    /\ info = {}
    /\ calls = <<>>
    /\ result = "none"
    /\ exc = NoExc
    /\ written = {}
    /\ wr = NoArray
    /\ wi = NoArray
    /\ vr = NoArray
    /\ values = NoArray
    /\ rightVectors = NoArray
    /\ j = 0
    /\ reached = <<>>
    /\ overrun = {}
    /\ acc = <<>>
    /\ amat = NoArray
    /\ da = NoArray
    /\ lu = NoLu
    /\ log = <<>>
    /\ th = [t \in Threads |-> IdleThread]
    /\ heap = {}
    /\ cout = <<>>
    /\ mpc = "idle"
    /\ mop = "none"
    /\ mkind = "none"
    /\ got = NoArray
    /\ underFlow = {}
    /\ smallNumber = {}
    /\ bigNumber = {}
    /\ kcalls = <<>>
    /\ hist = <<>>

Init ==
    /\ lapack \in BOOLEAN
    /\ ndebug \in BOOLEAN
    /\ Idle
    /\ mach = [S |-> [k \in RealKinds |-> -9], P |-> [k \in RealKinds |-> -3],
               adj |-> [k \in RealKinds |-> FALSE]]

\* a caller invokes operation o for element kind k
Invoke(o, k, m, n, jz, lw, pad, len) ==
    /\ pc = "idle"
    /\ k \in KindsOf(o)
    /\ jz = "N" \/ o = "gesdd"
    /\ IF o \in CallerWorkOps THEN lw \in CallerLWork ELSE lw = 0
    /\ pad = 0 \/ Copies(o, k) \/ Repacks(o, k)
    /\ len = 0 \/ (o = "ilaenv" /\ k \in Kinds)
    /\ pc' = "entry"
    /\ op' = o
    /\ kind' = k
    /\ arg' = [m |-> m, n |-> n, mn |-> Min(m, n), jobz |-> jz, lwork |-> lw,
                lda |-> m + pad, ldvr |-> (IF n < 1 THEN 1 ELSE n) + pad,
                name |-> Name(len)]
    /\ bufs' = {}
    /\ acquired' = 0
    /\ wsize' = {}
    /\ sizeRead' = {}
    /\ lwork' = {}
    /\ info' = {}
    /\ calls' = <<>>
    /\ result' = "none"
    /\ exc' = NoExc
    /\ written' = {}
    /\ wr' = NoArray
    /\ wi' = NoArray
    /\ vr' = NoArray
    /\ values' = IF o = "geev" /\ k \in Kinds THEN AtEntry(n) ELSE NoArray
    /\ rightVectors' = IF o = "geev" /\ k \in Kinds THEN AtEntry(n * n) ELSE NoArray
    /\ j' = 0
    /\ reached' = <<>>
    /\ overrun' = {}
    /\ acc' = <<>>
    /\ \E s \in (IF Copies(o, k) THEN Seeds ELSE {1}) :
          amat' = IF Copies(o, k) THEN CallerMatrix(s, m + pad, n) ELSE NoArray
    /\ da' = NoArray
    /\ lu' = IF o = "sytrs" /\ lu.kind = k THEN lu ELSE NoLu
    /\ log' = <<>>
    /\ UNCHANGED <<cvars, mvars, lapack, ndebug>>

Finish(res, e) ==
    /\ result' = res
    /\ exc' = e
    /\ bufs' = AtExit(bufs)
    /\ pc' = "done"

\* the generic template body: assert(false); and nothing else
GenericBody ==
    /\ pc = "entry"
    /\ kind = OtherKind
    /\ IF ndebug THEN result' = "returned" ELSE result' = "aborted"
    /\ pc' = "done"
    /\ UNCHANGED <<cvars, mvars, lapack, ndebug, op, kind, arg, bufs, acquired, wsize, sizeRead,
                   lwork, info, calls, exc, written, gvars, log>>

\* a specialization: the declarations that precede the backend guard
Prologue ==
    /\ pc = "entry"
    /\ kind \in Kinds
    /\ bufs' = bufs \cup EarlyBufs(op, kind, arg)
    /\ acquired' = acquired + Cardinality(EarlyBufs(op, kind, arg))
    /\ pc' = "guard"
    /\ UNCHANGED <<cvars, mvars, lapack, ndebug, op, kind, arg, wsize, sizeRead, lwork, info,
                   calls, result, exc, written, gvars, log>>

\* #ifdef SIMBODY_WITHOUT_LAPACK: throw std::runtime_error
Unavailable ==
    /\ pc = "guard"
    /\ ~lapack
    /\ HasBackendGuard(op, kind)
    /\ Finish("BackendUnavailable", BackendUnavailable(op))
    /\ UNCHANGED <<cvars, mvars, lapack, ndebug, op, kind, arg, acquired, wsize, sizeRead, lwork,
                   info, calls, written, gvars, log>>

\* #else: the scratch buffers the body declares before its first kernel call
Setup ==
    /\ pc = "guard"
    /\ lapack \/ ~HasBackendGuard(op, kind)
    /\ bufs' = bufs \cup SetupBufs(op, kind, arg)
    /\ acquired' = acquired + Cardinality(SetupBufs(op, kind, arg))
    /\ pc' = IF op \in QueryOps THEN "setup" ELSE "ready"
    /\ wi' = IF Repacks(op, kind) THEN Zeroed(arg.n) ELSE wi
    /\ acc' = IF Repacks(op, kind) THEN acc \o ZeroFill(arg.n) ELSE acc
    /\ log' = log \o SetupLog(op, kind, arg.n)
    /\ UNCHANGED <<cvars, mvars, lapack, ndebug, op, kind, arg, wsize, sizeRead, lwork, info,
                   calls, result, exc, written, wr, vr, values, rightVectors, j,
                   reached, overrun, amat, da, lu>>

\* the size query: the kernel call with scratch length -1
Query ==
    /\ pc = "setup"
    /\ \E i \in InfoVals, w \in WSizeVals :
         /\ calls' = Append(calls, CallRec(Routine(op, kind), QueryLength(op), QueryWork(op), 1,
                                          QueryArgs(op, kind), i))
         /\ info' = {i}
         /\ wsize' = IF i < 0 THEN wsize ELSE {w}
         /\ written' = written \cup KernelWrites(op, QueryLength(op) = -1, i)
         /\ log' = log \o QueryLog(op, i)
    /\ pc' = "queried"
    /\ UNCHANGED <<cvars, mvars, lapack, ndebug, op, kind, arg, bufs, acquired, sizeRead, lwork,
                   result, exc, gvars>>

\* between the two calls: the status test where there is one, the read of
\* the reported size, and the sizing of the primary scratch buffer
Size ==
    /\ pc = "queried"
    /\ IF CheckAfterQuery(op, kind) /\ IsArgError(TheInfo)
       THEN /\ Finish("InvalidArgument", IllegalLapackArg(ThrowName(op, kind), TheInfo))
            /\ UNCHANGED <<sizeRead, lwork, acquired, log>>
       ELSE \E v \in (IF wsize = {} THEN GarbageVals ELSE wsize) :
              /\ sizeRead' = {v}
              /\ lwork' = {getLWork(v)}
              /\ log' = log \o SizeLog(op)
              /\ IF getLWork(v) < 0
                 THEN /\ Finish("BadAlloc", BadAlloc)
                      /\ UNCHANGED acquired
                 ELSE /\ bufs' = IF op = "gesdd"
                                 THEN Resize(bufs, "work", getLWork(v))
                                 ELSE Acquire(bufs, "work", getLWork(v))
                      /\ acquired' = acquired + 1
                      /\ pc' = "ready"
                      /\ UNCHANGED <<result, exc>>
    /\ UNCHANGED <<cvars, mvars, lapack, ndebug, op, kind, arg, wsize, info, calls, written, gvars>>

\* the real kernel call (for getMachinePrecision, the three kernel calls)
Real ==
    /\ pc = "ready"
    /\ \E i \in (IF HasStatus(op) THEN InfoVals ELSE {0}) :
         LET lw == CASE op \in QueryOps -> CHOOSE x \in lwork : TRUE
                     [] op \in CallerWorkOps -> arg.lwork
                     [] OTHER -> 0
             wk == CASE op \in QueryOps -> "work.data"
                     [] op \in CallerWorkOps -> "work"
                     [] OTHER -> "none"
             wl == IF op \in QueryOps THEN BufSize(bufs, "work") ELSE 0
             rs == RealRoutines(op, kind)
         IN  /\ calls' = calls \o [p \in 1..Len(rs) |->
                                     CallRec(rs[p], lw, wk, wl, RealArgs(op, kind), i)]
             /\ info' = IF HasStatus(op) THEN {i} ELSE info
             /\ written' = written \cup KernelWrites(op, lw = -1, i)
             /\ lu' = IF op = "sytrf" /\ lw # -1 /\ i >= 0
                      THEN [kind |-> kind, form |-> Family(rs[1])]
                      ELSE lu
             /\ \E out \in KernelOut(op, kind, arg.n, lw, i) :
                   /\ wr' = out.wr
                   /\ wi' = IF Repacks(op, kind) THEN out.wi ELSE wi
                   /\ vr' = out.vr
             /\ overrun' = overrun
                   \cup Outside(RealAcc(op, kind, arg), "prefix", PrefixSize)
                   \cup KernelOverrun(op, kind, arg.n, arg.ldvr, lw, i)
    /\ da' = IF Copies(op, kind) THEN LangeCopy(amat, arg.m, arg.n, arg.lda) ELSE da
    /\ acc' = acc \o RealAcc(op, kind, arg)
    /\ log' = log \o RealLog(op, kind, arg.m, arg.n)
    /\ pc' = "called"
    /\ UNCHANGED <<cvars, mvars, lapack, ndebug, op, kind, arg, bufs, acquired, wsize, sizeRead,
                   lwork, result, exc, values, rightVectors, j, reached, amat>>

\* after the real call: the status test where there is one, then the return
Epilogue ==
    /\ pc = "called"
    /\ IF CheckAfterReal(op, kind) /\ IsArgError(TheInfo)
       THEN Finish("InvalidArgument", IllegalLapackArg(ThrowName(op, kind), TheInfo))
       ELSE IF Repacks(op, kind)
            THEN pc' = "eigen" /\ UNCHANGED <<result, exc, bufs>>
            ELSE Finish("returned", NoExc)
    /\ UNCHANGED <<cvars, mvars, lapack, ndebug, op, kind, arg, acquired, wsize, sizeRead, lwork,
                   info, calls, written, gvars, log>>

\* geev, real kinds: values[i] = complex(wr.data[i], wi.data[i]) for i < n
Values ==
    /\ pc = "eigen"
    /\ values' = [idx \in 0..(arg.n - 1) |-> Complex(wr[idx], wi[idx])]
    /\ j' = 0
    /\ written' = IF arg.n > 0 THEN written \cup {"values"} ELSE written
    /\ log' = IF arg.n > 0
              THEN log \o <<Event("read", "wr"), Event("read", "wi")>>
              ELSE log
    /\ acc' = acc \o ValuesAcc(arg.n)
    /\ pc' = "repack"
    /\ UNCHANGED <<cvars, mvars, lapack, ndebug, op, kind, arg, bufs, acquired, wsize, sizeRead,
                   lwork, info, calls, result, exc, wr, wi, vr, rightVectors,
                   reached, overrun, amat, da, lu>>

\* geev, real kinds: one iteration of for(int j=0;j<n;j++) of the repacking
RepackColumn ==
    /\ pc = "repack"
    /\ j < arg.n
    /\ LET n == arg.n
       IN  IF IsRealEigenvalue(kind, wi[j])
           THEN /\ rightVectors' =
                     [idx \in DOMAIN rightVectors |->
                        IF idx \div n = j THEN <<vr[idx], 0>> ELSE rightVectors[idx]]
                /\ j' = j + 1
                /\ reached' = Append(reached, [col |-> j, pair |-> FALSE])
                /\ acc' = acc \o RealColumnAcc(j, n)
                /\ UNCHANGED overrun
           ELSE IF j + 1 < n
           THEN /\ rightVectors' =
                     [idx \in DOMAIN rightVectors |->
                        CASE idx \div n = j -> <<vr[idx], vr[idx + n]>>
                          [] idx \div n = j + 1 -> <<vr[idx - n], -vr[idx]>>
                          [] OTHER -> rightVectors[idx]]
                /\ j' = AfterPair(j)
                /\ reached' = Append(reached, [col |-> j, pair |-> TRUE])
                /\ acc' = acc \o PairColumnsAcc(j, n)
                /\ UNCHANGED overrun
           ELSE \* column j + 1 = n lies past the end of vr and of rightVectors
                \E g \in [0..(n - 1) -> PastEnd] :
                  /\ rightVectors' =
                       [idx \in DOMAIN rightVectors |->
                          IF idx \div n = j THEN <<vr[idx], g[idx % n]>>
                          ELSE rightVectors[idx]]
                  /\ j' = AfterPair(j)
                  /\ reached' = Append(reached, [col |-> j, pair |-> TRUE])
                  /\ acc' = acc \o PairColumnsAcc(j, n)
                  /\ overrun' = overrun
                       \cup {[ev |-> "read", buf |-> "vr", at |-> n * n + i] : i \in 0..(n - 1)}
                       \cup {[ev |-> "write", buf |-> "rightVectors", at |-> n * n + i] :
                               i \in 0..(n - 1)}
    /\ written' = written \cup {"rightVectors"}
    /\ log' = log \o <<Event("read", "wi"), Event("read", "vr")>>
    /\ UNCHANGED <<cvars, mvars, lapack, ndebug, pc, op, kind, arg, bufs, acquired, wsize, sizeRead,
                   lwork, info, calls, result, exc, wr, wi, vr, values, amat, da, lu>>

\* geev, real kinds: the repacking loop ends and the operation returns
RepackEnd ==
    /\ pc = "repack"
    /\ j >= arg.n
    /\ Finish("returned", NoExc)
    /\ UNCHANGED <<cvars, mvars, lapack, ndebug, op, kind, arg, acquired, wsize, sizeRead, lwork,
                   info, calls, written, gvars, log>>

\* control is back with the caller, which may invoke again
Leave ==
    /\ pc = "done"
    /\ pc' = "idle"
    /\ op' = "none"
    /\ kind' = "none"
    /\ arg' = NoArg
    /\ acquired' = 0
    /\ wsize' = {}
    /\ sizeRead' = {}
    /\ lwork' = {}
    /\ info' = {}
    /\ calls' = <<>>
    /\ result' = "none"
    /\ exc' = NoExc
    /\ written' = {}
    /\ wr' = NoArray
    /\ wi' = NoArray
    /\ vr' = NoArray
    /\ values' = NoArray
    /\ rightVectors' = NoArray
    /\ j' = 0
    /\ reached' = <<>>
    /\ overrun' = {}
    /\ acc' = <<>>
    /\ amat' = NoArray
    /\ da' = NoArray
    /\ lu' = lu
    /\ log' = <<>>
    /\ UNCHANGED <<cvars, mvars, lapack, ndebug, bufs>>

\* the caller picks the operation, the element kind and the inputs
Call ==
    /\ pc = "idle"
    /\ \E o \in Ops, k \in Kinds \cup {OtherKind}, m \in Dims, n \in Dims,
          jz \in {"N", "A"}, lw \in CallerLWork \cup {0},
          pad \in 0..MaxPad, len \in 0..MaxName :
            Invoke(o, k, m, n, jz, lw, pad, len)

Next ==
    \/ Call
    \/ GenericBody
    \/ Prologue
    \/ Unavailable
    \/ Setup
    \/ Query
    \/ Size
    \/ Real
    \/ Epilogue
    \/ Values
    \/ RepackColumn
    \/ RepackEnd
    \/ Leave

Spec == Init /\ [][Next]_vars

\* two callers at once, in a build with the backend
ConcInit == Init /\ lapack /\ ~ndebug

ConcNext ==
    \E t \in Threads :
        \/ \E o \in ConcOps, k \in Kinds : TEnter(t, o, k)
        \/ TAcquire(t)
        \/ TCopy(t)
        \/ TPrint(t)
        \/ TEndl(t)
        \/ TKernel(t)
        \/ TReturn(t)

ConcSpec == ConcInit /\ [][ConcNext]_vars

\* a sequence of machine-constant calls, on any machine
MachInit ==
    /\ lapack \in BOOLEAN
    /\ ndebug = FALSE
    /\ Idle
    /\ mach \in Machines

MachNext ==
    \/ \E o \in MachOps, k \in RealKinds : MCall(o, k)
    \/ MUnavailable
    \/ MUnderflow
    \/ \E c \in {"S", "P"} : MLamch(c)
    \/ MSmallBig
    \/ MLabad

MachSpec == MachInit /\ [][MachNext]_vars

----------------------------------------------------------------------------
(* Properties. *)

Done == pc = "done"
Made == Len(calls) > 0
LastCall == calls[Len(calls)]
\* the invocation ran a specialization and its last kernel call was a real
\* (non-query) call that produced a status
RealStatusCall == kind \in Kinds /\ HasStatus(op) /\ Made /\ ~LastCall.query

\* C1: whenever the real (non-query) kernel call of an operation returns a
\* negative status, the invocation ends with InvalidArgument and does not
\* return normally.
C1_NegativeStatusRaises ==
    (Done /\ RealStatusCall /\ LastCall.info < 0) => result = "InvalidArgument"

\* C2: an InvalidArgument failure carries the name of the kernel routine
\* that was invoked and the argument position k = -info >= 1 of the status
\* info = -k that routine returned.
C2_ArgErrorNamesRoutine ==
    result = "InvalidArgument" =>
        /\ Made
        /\ exc.type = "InvalidArgument"
        /\ exc.routine = LastCall.routine
        /\ LastCall.info < 0
        /\ exc.arg = -LastCall.info
        /\ exc.arg >= 1

C2_Witness ==
    /\ result = "InvalidArgument" /\ Made
    /\ op = "sytrs" /\ kind = "complex32"
    /\ LastCall.routine = "chetrs" /\ LastCall.info = -2
    /\ exc.routine = "chetrs" /\ exc.arg = 2

\* C3 as stated: a positive status of the kernel call never raises a
\* failure; the operation returns normally and the caller receives that
\* positive status, for every operation that obtains a status.
C3_PositiveStatusDelivered ==
    (Done /\ RealStatusCall /\ LastCall.info > 0) =>
        (result = "returned" /\ CallerInfo = {LastCall.info})

\* C3 amended: a positive status of the kernel call never raises a failure
\* and the operation returns normally; the caller receives that status from
\* every operation whose status variable is its info parameter, while potrs,
\* sytrs and getrs keep the status in a local variable and deliver nothing.
C3_PositiveStatusReturns ==
    (Done /\ RealStatusCall /\ LastCall.info > 0) =>
        /\ result = "returned"
        /\ exc = NoExc
        /\ op \notin {"potrs", "sytrs", "getrs"} => CallerInfo = {LastCall.info}
        /\ op \in {"potrs", "sytrs", "getrs"} => CallerInfo = {}

C3_Witness ==
    /\ Done /\ Made /\ op = "potrf" /\ kind = "real64"
    /\ LastCall.routine = "dpotrf" /\ LastCall.info = 1
    /\ result = "returned" /\ CallerInfo = {1}

C5_QueryErrorStops ==
    (kind \in Kinds /\ op \in {"gelss", "syevx", "syev", "gesdd"} /\ Made
       /\ calls[1].info < 0 /\ pc # "queried")
    => /\ result = "InvalidArgument"
       /\ sizeRead = {}
       /\ lwork = {}
       /\ Len(calls) = 1

\* C6: in gelss, syevx, syev and gesdd the primary scratch buffer handed to
\* the real call has as many elements as the real call's scratch-length
\* argument says, and when the query reported a size that number is the
\* reported size truncated to an integer.
C6_ScratchSizedAsReported ==
    (kind \in Kinds /\ op \in {"gelss", "syevx", "syev", "gesdd"}) =>
        \A p \in 1..Len(calls) :
            ~calls[p].query =>
                /\ calls[p].work = "work.data"
                /\ calls[p].worklen = calls[p].lwork
                /\ \A v \in wsize :
                      2 * calls[p].lwork <= v /\ v < 2 * calls[p].lwork + 2

C6_Witness ==
    /\ op = "gelss" /\ kind = "complex32" /\ Len(calls) = 2
    /\ wsize = {5} /\ sizeRead = {5}
    /\ calls[2].lwork = 2 /\ calls[2].worklen = 2

\* C7: in gelss, syevx, syev and gesdd the size query and the real call go
\* to the same routine with the same arguments in every position other than
\* the scratch buffer and the scratch length, and with the same auxiliary
\* scratch buffers.
C7_QueryAndRealArgsAgree ==
    (kind \in Kinds /\ op \in {"gelss", "syevx", "syev", "gesdd"} /\ Len(calls) = 2) =>
        LET q == calls[1]
            r == calls[2]
        IN  /\ q.routine = r.routine
            /\ Len(q.args) = Len(r.args)
            /\ \A i \in 1..Len(q.args) :
                  i \notin {WorkPos(op), WorkPos(op) + 1} => q.args[i] = r.args[i]
            /\ q.aux = r.aux

C7_Witness ==
    /\ op = "syevx" /\ kind = "complex64" /\ Len(calls) = 2
    /\ calls[1].args[16] = "wsize" /\ calls[2].args[16] = "work.data"
    /\ calls[1].args[6] = "lda" /\ calls[2].args[6] = "lda"
    /\ Cardinality(calls[2].aux) = 2

\* C8: no scratch buffer is live once an invocation has ended, whichever
\* way it ended.
C8_NoLiveScratchAfterInvocation ==
    pc \in {"done", "idle"} => Cardinality(bufs) = 0

C8_Witness ==
    /\ Done /\ op = "geqp3" /\ kind = "complex32"
    /\ result = "BackendUnavailable" /\ acquired = 1 /\ bufs = {}

\* C9: without the backend every specialization fails with the
\* backend-unavailable failure, makes no kernel call and writes no
\* caller-visible output.
C9_BackendUnavailable ==
    (~lapack /\ kind \in Kinds) =>
        /\ ~Made
        /\ written = {}
        /\ CallerInfo = {}
        /\ Done => (result = "BackendUnavailable" /\ exc.type = "BackendUnavailable")

C9_Witness ==
    /\ ~lapack /\ Done /\ op = "ilaenv" /\ kind = "complex64"
    /\ result = "BackendUnavailable" /\ ~Made /\ written = {}

\* C10: an invocation with an element kind that has no specialization never
\* returns normally to its caller.
C10_GenericRejected ==
    (kind = OtherKind /\ Done) => result # "returned"

C12_SytrsRouting ==
    (op = "sytrs" /\ kind \in Kinds) =>
        \A p \in 1..Len(calls) :
            calls[p].routine =
                CASE kind = "real32" -> "ssytrs"
                  [] kind = "real64" -> "dsytrs"
                  [] kind = "complex32" -> "chetrs"
                  [] kind = "complex64" -> "zhetrs"

C12_Witness ==
    /\ Done /\ Made /\ op = "sytrs" /\ kind = "complex64"
    /\ LastCall.routine = "zhetrs" /\ result = "returned"

\* the column the repacking loop went on to after the p-th column it handled
NextCol(p) == IF p < Len(reached) THEN reached[p + 1].col ELSE j

\* the entries of output column c, and of kernel column c
OutCol(c) == [i \in 0..(arg.n - 1) |-> rightVectors[c * arg.n + i]]
KernelCol(c) == [i \in 0..(arg.n - 1) |-> vr[c * arg.n + i]]
Conj(re, im, sign) == [i \in 0..(arg.n - 1) |-> <<re[i], sign * im[i]>>]

\* C13: in geev for real kinds, for every column c handled by the repacking
\* loop whose eigenvalue has |imaginary part| >= epsilon, columns c and c+1
\* of the output are (kernel column c) + i*(kernel column c+1) and
\* (kernel column c) - i*(kernel column c+1), and the loop goes on to
\* column c+2.
C13_ConjugatePairRepacked ==
    Repacks(op, kind) =>
        \A p \in 1..Len(reached) :
            LET c == reached[p].col
            IN  fabs(wi[c]) >= EPS =>
                  /\ c + 1 < arg.n
                  /\ OutCol(c) = Conj(KernelCol(c), KernelCol(c + 1), 1)
                  /\ OutCol(c + 1) = Conj(KernelCol(c), KernelCol(c + 1), -1)
                  /\ NextCol(p) = c + 2

RealCalls == {p \in 1..Len(calls) : ~calls[p].query}

\* a step of an invocation that has raised adds no kernel call
NoCallAfterRaise ==
    result \in {"InvalidArgument", "BackendUnavailable"} => Len(calls') <= Len(calls)

\* C15: no operation retries: an invocation that has raised InvalidArgument
\* or BackendUnavailable makes no further kernel call, and an invocation
\* issues the real (non-query) kernel call of its operation at most once
\* (getMachinePrecision: each of its three kernel calls at most once).
C15_NoRetry ==
    /\ [](Cardinality(RealCalls) <= IF op = "getMachinePrecision" THEN 3 ELSE 1)
    /\ [](op = "getMachinePrecision" /\ Len(calls) = 3 =>
            /\ calls[1].routine = calls[2].routine
            /\ calls[3].routine \in {"slabad", "dlabad"})
    /\ [][NoCallAfterRaise]_vars

C15_Witness ==
    /\ Done /\ op = "syev" /\ kind = "complex64"
    /\ result = "InvalidArgument" /\ Len(calls) = 1 /\ calls[1].query

\* C17: ilaenv forwards ispec, opts and its four dimension parameters n1,
\* n2, n3, n4 unchanged to the corresponding positions of the kernel call
\* (the name goes in position 2, with the kind's prefix), for all four
\* kinds.
C17_IlaenvForwardsVerbatim ==
    (op = "ilaenv" /\ kind \in Kinds) =>
        \A p \in 1..Len(calls) :
            \A q \in {1, 3, 4, 5, 6, 7} : calls[p].args[q] = IlaenvParams[q]

\* the scratch buffers called name that a kernel call was handed
AuxNamed(c, name) == {b \in c.aux : b.name = name}

\* C18: every kernel call of gesdd is handed an integer scratch array of
\* exactly 8*mn elements, and for complex32 and complex64 a real scratch
\* array of exactly 5*mn elements when jobz is 'N' and 5*mn*mn + 7*mn
\* elements otherwise, where mn = min(m, n).
C18_GesddScratchSizes ==
    (op = "gesdd" /\ kind \in Kinds) =>
        LET mn == IF arg.m < arg.n THEN arg.m ELSE arg.n
        IN  \A p \in 1..Len(calls) :
              /\ AuxNamed(calls[p], "iwork") = {Buf("iwork", 8 * mn)}
              /\ IsComplex(kind) /\ arg.jobz = "N" =>
                    AuxNamed(calls[p], "rwork") = {Buf("rwork", 5 * mn)}
              /\ IsComplex(kind) /\ arg.jobz # "N" =>
                    AuxNamed(calls[p], "rwork") = {Buf("rwork", 5 * mn * mn + 7 * mn)}
              /\ ~IsComplex(kind) => AuxNamed(calls[p], "rwork") = {}

C18_Witness ==
    /\ Done /\ Made /\ op = "gesdd" /\ kind = "complex32"
    /\ arg.m = 2 /\ arg.n = 1 /\ arg.jobz = "A" /\ Len(calls) = 2
    /\ LastCall.aux = {Buf("rwork", 12), Buf("iwork", 8)}

\* C19: every kernel call of syev for complex32 and complex64 is handed a
\* real scratch array of exactly max(1, 3*n - 2) elements, never fewer than
\* one, and the size query and the real call are handed the same array.
C19_SyevRworkSize ==
    (op = "syev" /\ IsComplex(kind)) =>
        /\ \A p \in 1..Len(calls) :
              /\ AuxNamed(calls[p], "rwork") =
                    {Buf("rwork", IF 3 * arg.n - 2 > 1 THEN 3 * arg.n - 2 ELSE 1)}
              /\ \A b \in AuxNamed(calls[p], "rwork") : b.size >= 1
              /\ calls[p].args[9] = "rwork.data"
        /\ Len(calls) = 2 => AuxNamed(calls[1], "rwork") = AuxNamed(calls[2], "rwork")

C19_Witness ==
    /\ Done /\ op = "syev" /\ kind = "complex32" /\ arg.n = 0 /\ Len(calls) = 2
    /\ AuxNamed(calls[1], "rwork") = {Buf("rwork", 1)}
    /\ AuxNamed(calls[2], "rwork") = {Buf("rwork", 1)}

\* the positions of the log at which buffer name is resized
Resizes(name) == {p \in 1..Len(log) : log[p] = Event("resize", name)}

\* C20: within one invocation each scratch buffer is resized at most once,
\* and no read of a buffer follows a resize of it without a write to it in
\* between; the one read of a buffer that is resized, the read of the
\* reported size from the one-element work of gesdd, comes before the resize.
C20_ResizedOnceNeverReadStale ==
    \A name \in {log[p].buf : p \in 1..Len(log)} :
        /\ Cardinality(Resizes(name)) <= 1
        /\ \A r \in Resizes(name) :
              \A p \in 1..Len(log) :
                  log[p] = Event("read", name) =>
                      \/ p < r
                      \/ \E q \in (r + 1)..(p - 1) : log[q] = Event("write", name)

C20_Witness ==
    /\ Done /\ op = "gesdd" /\ kind = "complex64" /\ result = "returned"
    /\ log = <<Event("resize", "rwork"), Event("write", "work"), Event("read", "work"),
               Event("resize", "work"), Event("write", "work")>>

\* C21: a scratch buffer created with size 0 is never read or written by
\* the facade itself: geev for real kinds with n = 0 accesses no element of
\* wr, wi or vr and writes nothing to values or rightVectors, and lange for
\* real32/complex32 with m = 0 or n = 0 accesses no element of its copy
\* buffer.
C21_EmptyScratchUntouched ==
    /\ (Repacks(op, kind) /\ arg.n = 0) =>
          /\ \A p \in 1..Len(acc) :
                acc[p].buf \notin {"wr", "wi", "vr", "values", "rightVectors"}
          /\ written \cap {"values", "rightVectors"} = {}
          /\ values = AtEntry(0) /\ rightVectors = AtEntry(0)
    /\ (Copies(op, kind) /\ (arg.m = 0 \/ arg.n = 0)) =>
          /\ \A p \in 1..Len(acc) : acc[p].buf \notin {"da", "za"}
          /\ da = NoArray

C21_Witness ==
    /\ Done /\ op = "geev" /\ kind = "real32" /\ arg.n = 0
    /\ result = "returned" /\ Len(calls) = 1 /\ ~calls[1].query
    /\ Buf("wi", 0) \in calls[1].aux /\ acc = <<>>

\* C23: in geev for real kinds, whenever the kernel returns status >= 0 the
\* operation returns with values[i] = (wr[i], wi[i]), the kernel's i-th
\* real-part and imaginary-part outputs, for every i in 0..n-1; for complex
\* kinds the kernel is handed the caller's values and rightVectors and the
\* facade repacks nothing.
C23_ValuesFromKernel ==
    /\ (Repacks(op, kind) /\ Done /\ Made /\ LastCall.info >= 0) =>
          /\ result = "returned"
          /\ DOMAIN values = 0..(arg.n - 1)
          /\ \A i \in 0..(arg.n - 1) : values[i][1] = wr[i] /\ values[i][2] = wi[i]
          /\ LastCall.args[6] = "wr.data" /\ LastCall.args[7] = "wi.data"
    /\ (op = "geev" /\ IsComplex(kind)) =>
          /\ \A p \in 1..Len(calls) :
                calls[p].args[6] = "values" /\ calls[p].args[9] = "rightVectors"
          /\ acc = <<>> /\ reached = <<>>
          /\ values = AtEntry(arg.n) /\ rightVectors = AtEntry(arg.n * arg.n)
          /\ written \cap {"values", "rightVectors"} = {}

C23_Witness ==
    /\ Done /\ op = "geev" /\ kind = "real64" /\ arg.n = 2 /\ info = {1}
    /\ result = "returned"
    /\ wr = Content(2, 2) /\ wi[0] = EPS /\ wi[1] = -EPS
    /\ values[0] = <<2, EPS>> /\ values[1] = <<4, -EPS>>

\* C24: in geev for real kinds, for every n and every array of imaginary
\* parts the kernel returns with status >= 0, the repacking loop reads vr and
\* writes rightVectors only in columns 0..n-1: it never accesses an element
\* of index n*n or more.
C24_RepackInBounds ==
    Repacks(op, kind) =>
        \A p \in 1..Len(acc) :
            acc[p].buf \in {"vr", "rightVectors"} =>
                (acc[p].at >= 0 /\ acc[p].at < arg.n * arg.n)

\* the imaginary parts come as conjugate pairs: the entries with
\* |imaginary part| >= epsilon are exactly those of a set of disjoint pairs
\* of adjacent entries s, s+1 with opposite imaginary parts
ConjugatePairs ==
    LET n == arg.n
        eps == IF kind = "real32" THEN ToFloat(EPS) ELSE EPS
    IN  \E starts \in SUBSET (0..(n - 2)) :
          /\ \A c \in starts : fabs(wi[c]) >= eps /\ wi[c + 1] = -wi[c]
          /\ \A c, d \in starts : c # d => (c - d >= 2 \/ d - c >= 2)
          /\ \A c \in 0..(n - 1) :
                fabs(wi[c]) >= eps <=> (c \in starts \/ (c - 1) \in starts)

\* how many times the repacking loop wrote element idx of rightVectors
WritesTo(idx) ==
    Cardinality({p \in 1..Len(acc) : acc[p] = Access("write", "rightVectors", idx)})

\* the iterations of the repacking loop that handled column c as a real
\* column, and those that handled it as one of a conjugate pair
AsReal(c) == {p \in 1..Len(reached) : ~reached[p].pair /\ reached[p].col = c}
AsPair(c) ==
    {p \in 1..Len(reached) :
       reached[p].pair /\ c \in {reached[p].col, reached[p].col + 1}}

ArgValue(a) ==
    CASE a = "n" -> arg.n
      [] a = "m" -> arg.m
      [] a = "lda" -> arg.lda
      [] a = "ldvr" -> arg.ldvr

\* C26: in geev for real kinds, the leading dimension the kernel is given
\* for the internal eigenvector buffer vr equals n, the column stride with
\* which the facade sizes vr (n*n) and reads it, whatever ldvr >= 1 the
\* caller supplies; the kernel is never told a leading dimension under
\* which n columns exceed the n*n elements of vr.
C26_VrLeadingDimIsN ==
    (Repacks(op, kind) /\ arg.n >= 1 /\ arg.ldvr >= 1) =>
        /\ \A p \in 1..Len(calls) :
              /\ calls[p].args[10] = "vr.data"
              /\ Buf("vr", arg.n * arg.n) \in calls[p].aux
              /\ ArgValue(calls[p].args[11]) = arg.n
              /\ (arg.n - 1) * ArgValue(calls[p].args[11]) + arg.n <= arg.n * arg.n
        /\ \A e \in overrun : e.ev # "kernel write"

\* C27: in geev for real kinds, when the kernel returns a negative status
\* the operation ends with InvalidArgument and never enters the loops that
\* fill values and rightVectors: both buffers hold what they held at entry
\* and the facade has made no write access to either.
C27_NegativeStatusLeavesOutputs ==
    (Repacks(op, kind) /\ \E i \in info : i < 0) =>
        /\ pc \in {"called", "done"}
        /\ pc = "done" =>
              /\ result = "InvalidArgument"
              /\ exc = IllegalLapackArg(ThrowName(op, kind), TheInfo)
        /\ values = AtEntry(arg.n)
        /\ rightVectors = AtEntry(arg.n * arg.n)
        /\ written \cap {"values", "rightVectors"} = {}
        /\ \A p \in 1..Len(acc) : acc[p].buf \notin {"values", "rightVectors"}

C27_Witness ==
    /\ Done /\ op = "geev" /\ kind = "real64" /\ arg.n = 2 /\ info = {-1}
    /\ Len(calls) = 1 /\ result = "InvalidArgument"
    /\ values = AtEntry(2) /\ rightVectors = AtEntry(4)
    /\ acc = ZeroFill(2)

\* the family the claim names for an element kind; for real kinds the
\* symmetric kernels are the only ones there are
FamilyOf(k) == IF k \in RealKinds THEN "symmetric" ELSE "Hermitian"

\* C28: for each element kind, sytrf and sytrs are routed to kernels of the
\* same family: a factorization sytrf has produced is symmetric for real
\* kinds and Hermitian for complex kinds, and when sytrs is then called on
\* it the kernel behind sytrs is of the family that produced it.
C28_SameFamily ==
    /\ (op = "sytrf" /\ lu # NoLu) => lu.form = FamilyOf(kind)
    /\ (op = "sytrs" /\ lu # NoLu /\ Made) =>
          /\ Family(LastCall.routine) = lu.form
          /\ lu.form = FamilyOf(kind)

\* sytrs consumes a factorization of another family than the one that produced it
C28_Mismatch ==
    /\ Done /\ op = "sytrs" /\ kind = "complex64" /\ Made /\ result = "returned"
    /\ lu = [kind |-> "complex64", form |-> "symmetric"]
    /\ LastCall.routine = "zhetrs"

\* the number a decimal literal of an argument list denotes
Literal(a) ==
    CASE a = "6" -> 6
      [] a = "1" -> 1
      [] a = "-1" -> -1

\* C29: in ilaenv, for every routine name the caller supplies, the prefixed
\* name with its terminator fits in the 10 characters of the local buffer,
\* so no write lands past its end, and the name length handed to the kernel
\* is the length of the prefixed name, one more than the length of name.
C29_PrefixedNameFits ==
    (op = "ilaenv" /\ kind \in Kinds /\ Made) =>
        LET str == Strcat(<<Prefix(kind)>>, arg.name)
        IN  /\ Len(str) <= PrefixSize
            /\ \A e \in overrun : e.buf # "prefix"
            /\ \A p \in 1..Len(calls) : Literal(calls[p].args[8]) = Len(str) - 1

\* a nine-character name: the terminator is written at index 10 of d[10]
C29_Overflow ==
    /\ Done /\ op = "ilaenv" /\ kind = "real64" /\ Made /\ result = "returned"
    /\ Len(arg.name) = 9
    /\ Access("write", "prefix", 10) \in overrun
    /\ LastCall.args[8] = "6"

\* lange, real32 and complex32: the temporary at the kernel call is a dense
\* m-by-n copy of the caller's matrix and is what the kernel is handed
DenseCopyAtCall ==
    (Copies(op, kind) /\ Made) =>
        /\ DOMAIN da = 0..(arg.m * arg.n - 1)
        /\ Buf(CopyName(kind), arg.m * arg.n) \in LastCall.aux
        /\ \A c \in 0..(arg.n - 1), r \in 0..(arg.m - 1) :
              /\ da[c * arg.m + r].val = amat[c * arg.lda + r].val
              /\ da[c * arg.m + r].prec = "double"
        /\ LastCall.data = (IF kind = "real32" THEN "da.data" ELSE "za.data")
        /\ LastCall.ld = "m"
        /\ ArgValue(LastCall.ld) = arg.m
        /\ \A p \in 1..Len(acc) : acc[p].buf = "a" => acc[p].ev = "read"

\* lange, real32 and complex32: no step of the invocation changes the caller's matrix
CallerMatrixKept == (Copies(op, kind) /\ pc' # "idle") => amat' = amat

\* C30: in lange for real32 and complex32, for every m, n >= 0 and
\* lda >= m, the temporary handed to the kernel has m*n elements, element
\* (i, j) at index j*m + i holding the caller's element at index j*lda + i
\* in double precision, the kernel is given leading dimension m, and the
\* caller's matrix is read but never changed.
C30_LangeDenseCopy == []DenseCopyAtCall /\ [][CallerMatrixKept]_vars

C30_Witness ==
    /\ Done /\ op = "lange" /\ kind = "real32" /\ Made /\ result = "returned"
    /\ arg.m = 2 /\ arg.n = 2 /\ arg.lda = 3
    /\ da[2] = Widen(amat[3]) /\ da[2] # Widen(amat[2])
    /\ LastCall.routine = "dlange" /\ LastCall.ld = "m"

\* the calls of operation o for kind k that returned, as positions of hist
Returned(o, k) ==
    {p \in 1..Len(hist) :
       hist[p].op = o /\ hist[p].kind = k /\ hist[p].result = "returned"}

\* what the p-th call left in the caller's variables
Outputs(p) == <<hist[p].underFlow, hist[p].smallNumber, hist[p].bigNumber>>

\* C22 as stated: over any sequence of calls of getMachineUnderflow or
\* getMachinePrecision for the same kind, every call returns the same values
\* and the kernel's machine-constant routines are invoked for the first
\* call only.
C22_ComputedOnce ==
    \A o \in MachOps, k \in RealKinds :
        \A p, q \in Returned(o, k) :
            p < q => (Outputs(q) = Outputs(p) /\ hist[q].kernel = <<>>)

\* C22 amended: over any sequence of calls for the same kind, every call
\* returns the same values, those the kernel's routines give on this
\* machine; nothing is kept between calls: every call of getMachineUnderflow
\* invokes lamch('S') once, and every call of getMachinePrecision invokes
\* lamch('S') and lamch('P') once each, in either order, and then labad.
C22_SameValuesKernelEveryCall ==
    \A o \in MachOps, k \in RealKinds :
        \A p, q \in Returned(o, k) :
            LET kc == hist[p].kernel
                lamch == IF k = "real32" THEN "slamch" ELSE "dlamch"
                labad == IF k = "real32" THEN "slabad" ELSE "dlabad"
            IN  /\ Outputs(p) = Outputs(q)
                /\ o = "getMachineUnderflow" =>
                      /\ kc = <<[routine |-> lamch, arg |-> "S"]>>
                      /\ Outputs(p) = <<{mach.S[k]}, {}, {}>>
                /\ o = "getMachinePrecision" =>
                      /\ Len(kc) = 3
                      /\ {kc[1], kc[2]} = {[routine |-> lamch, arg |-> "S"],
                                           [routine |-> lamch, arg |-> "P"]}
                      /\ kc[3].routine = labad
                      /\ hist[p].underFlow = {}
                      /\ hist[p].smallNumber # {} /\ hist[p].bigNumber # {}

C22_Witness ==
    /\ Len(hist) = 3
    /\ \A p \in 1..3 :
          /\ hist[p].op = "getMachinePrecision" /\ hist[p].kind = "real32"
          /\ hist[p].result = "returned" /\ Len(hist[p].kernel) = 3
          /\ hist[p].smallNumber = {-3} /\ hist[p].bigNumber = {3}
    /\ hist[1].kernel[1].arg = "S" /\ hist[2].kernel[1].arg = "P"

\* what thread t has inserted into std::cout, in order
Said(t) == SelectSeq(cout, LAMBDA e : e.by = t)

\* C16: two invocations running concurrently on disjoint caller buffers
\* share no mutable state of the layer: in every interleaving each ends with
\* the failure or normal return its own kernel status calls for, its kernel
\* has computed from its own caller's data, it has printed what it prints
\* when alone, and every scratch block is accessed by its one owner only.
C16_NoSharedMutableState ==
    /\ \A t \in Threads :
          /\ th[t].pc = "done" =>
                /\ th[t].result =
                      IF /\ th[t].op \in StatusOps
                         /\ (CHOOSE x \in th[t].info : TRUE) < 0
                      THEN "InvalidArgument" ELSE "returned"
                /\ th[t].ret = t
                /\ Said(t) = IF th[t].op = "lange" /\ th[t].kind = "complex32"
                             THEN <<[by |-> t, text |-> "LapackInterface::lange called"],
                                    [by |-> t, text |-> "endl"]>>
                             ELSE <<>>
          /\ th[t].pc \in {"idle", "done"} => \A b \in heap : b.owner # t
    /\ \A b \in heap : b.owner \in Threads /\ b.users \subseteq {b.owner}
    /\ \A b, c \in heap : b.addr = c.addr => b = c

C16_Witness ==
    /\ \A t \in Threads :
          th[t].pc = "done" /\ th[t].op = "lange" /\ th[t].kind = "complex32"
          /\ th[t].ret = t
    /\ cout[1].by = 1 /\ cout[2].by = 2 /\ cout[3].by = 1 /\ cout[4].by = 2

====
